---- MODULE Spec2Model ----
(***************************************************************************)
(* State-machine model of adoptium-jdk-dl.py: one run of the script, from  *)
(* argument parsing to the JSON dump.  Every step of get_jdk and of the    *)
(* __main__ block is one action; the catalog, the download server and the  *)
(* file system's failures are the environment and are chosen with \E.      *)
(*                                                                         *)
(* Strings the code inspects (paths, file names, hex checksums) are tuples *)
(* of one-character strings; file contents are tuples of small integers.   *)
(* An optional value (Python None / a missing dict key) is <<>> and a      *)
(* present value v is <<v>>.                                               *)
(***************************************************************************)
EXTENDS Integers, Sequences, FiniteSets, TLC

VARIABLES
    pc,               \* position of the script
    args_o,           \* __main__: args.o, the optional output file
    sys_facts,        \* get_jdk: sys_facts
    ver,              \* get_jdk: index into java_versions of the loop variable
    java_package,     \* get_jdk: java_asset['binary']['package'] of this version
    asset,            \* get_jdk: the dict being built for this version
    assets,           \* get_jdk: assets / __main__: assets
    fs,               \* the file system: path -> node
    cur,              \* __main__: index of the extraction loop in assets
    extracted_assets, \* __main__: extracted_assets
    output,           \* what the run emitted: <<>> or <<the dumped list>>
    error,            \* the uncaught exception that ended the run, "" if none
    json_data,        \* fetch_adoptium: data, the decoded JSON array, where it runs on its own
    response,         \* download_asset: the server's response, where it runs on its own
    open_archives,    \* extract_asset: archive handles opened and not closed
    picked,           \* history: the catalog entry selected for each version so far
    verifyLog,        \* history: <<version index, result of verify_asset>>
    stages            \* history: <<version index, stage>> for every stage begun

vars == <<pc, args_o, sys_facts, ver, java_package, asset, assets, fs, cur,
          extracted_assets, output, error, json_data, response, open_archives,
          picked, verifyLog, stages>>

-----------------------------------------------------------------------------
(* Bounds and input domains *)

\* longest catalog response array the environment sends
MaxCatalog == 2

None == <<>>
Some(v) == <<v>>

\* BoundedSeq(S, n): all sequences over S of length at most n
BoundedSeq(S, n) == UNION {[1..k -> S] : k \in 0..n}

\* Python sequence indexing, with negative indices counting from the end
PyIndex(s, k) == IF k < 0 THEN s[Len(s) + k + 1] ELSE s[k + 1]

\* str.endswith
endswith(s, suf) ==
    /\ Len(s) >= Len(suf)
    /\ SubSeq(s, Len(s) - Len(suf) + 1, Len(s)) = suf

\* str.startswith
startswith(s, pre) ==
    /\ Len(s) >= Len(pre)
    /\ SubSeq(s, 1, Len(pre)) = pre

\* os.path.join(a, b) on POSIX
join(a, b) ==
    IF startswith(b, <<"/">>) THEN b
    ELSE IF a = <<>> \/ endswith(a, <<"/">>) THEN a \o b
    ELSE a \o <<"/">> \o b

\* index of the last "/" of p, 0 if none
LastSlash(p) ==
    LET S == {k \in 1..Len(p) : p[k] = "/"}
    IN  IF S = {} THEN 0 ELSE CHOOSE k \in S : \A m \in S : m <= k

\* os.path.dirname(p) on POSIX
dirname(p) ==
    LET k == LastSlash(p)
    IN  IF k = 0 THEN <<>> ELSE IF k = 1 THEN <<"/">> ELSE SubSeq(p, 1, k - 1)


-----------------------------------------------------------------------------
(* Hexadecimal checksums and the digest *)

HexDigits == <<"0", "1", "2", "3", "4", "5", "6", "7",
               "8", "9", "a", "b", "c", "d", "e", "f">>
HexUpper == <<"0", "1", "2", "3", "4", "5", "6", "7",
              "8", "9", "A", "B", "C", "D", "E", "F">>

IsHexDigit(c) == \E k \in 1..16 : HexDigits[k] = c \/ HexUpper[k] = c

HexVal(c) == (CHOOSE k \in 1..16 : HexDigits[k] = c \/ HexUpper[k] = c) - 1

\* binascii.hexlify: two lower-case digits per byte
RECURSIVE hexlify(_)
hexlify(bytes) ==
    IF bytes = <<>> THEN <<>>
    ELSE <<HexDigits[(Head(bytes) \div 16) + 1], HexDigits[(Head(bytes) % 16) + 1]>>
         \o hexlify(Tail(bytes))

\* codecs.decode(s, 'hex'): raises on None, on an odd length and on a non-hex
\* digit; accepts both letter cases
hex_decode(s) ==
    IF s = None THEN [raised |-> "TypeError", bytes |-> <<>>]
    ELSE LET h == s[1] IN
         IF Len(h) % 2 # 0 \/ \E k \in 1..Len(h) : ~IsHexDigit(h[k])
         THEN [raised |-> "binascii.Error", bytes |-> <<>>]
         ELSE [raised |-> "",
               bytes |-> [k \in 1..(Len(h) \div 2) |->
                            16 * HexVal(h[2 * k - 1]) + HexVal(h[2 * k])]]

\* hashlib.sha256 over the whole content, modelled as a one-byte digest that
\* is injective on contents of up to four bytes over 0..2
RECURSIVE sha256_acc(_, _)
sha256_acc(h, bytes) ==
    IF bytes = <<>> THEN h
    ELSE sha256_acc((3 * h + Head(bytes)) % 256, Tail(bytes))

sha256(bytes) == <<sha256_acc(1, bytes)>>

-----------------------------------------------------------------------------
(* The file system *)

File(bytes) == [isdir |-> FALSE, data |-> bytes]
Dir == [isdir |-> TRUE, data |-> <<>>]

\* f with node n written at path p
Put(f, p, n) == [q \in (DOMAIN f) \cup {p} |-> IF q = p THEN n ELSE f[q]]

exists(f, p) == p \in DOMAIN f

\* shutil.rmtree(d): d and everything below it are gone
rmtree(f, d) ==
    LET keep == {q \in DOMAIN f : q # d /\ ~startswith(q, d \o <<"/">>)}
    IN  [q \in keep |-> f[q]]

\* a cleanup that leaves the directory behind
leaktree(f, d) == f

\* TemporaryDirectory.__exit__ (line 130): reached on every way out of the
\* with block, by return or by exception
cleanup(f, d) == rmtree(f, d)

\* destination directory given on the command line (os.path.abspath'ed)
dir_path == <<"/", "d">>

\* the name tempfile gives the directory of version index i
Digit(i) == HexDigits[i + 1]
tmpdirname(i) == <<"/", "t", Digit(i)>>

\* the temporary directories that exist
TempDirs(f) == {i \in 1..9 : exists(f, tmpdirname(i))}

-----------------------------------------------------------------------------
(* The archive container, as tarfile sees a file's bytes: the first byte is *)
(* the compression (1 gzip, 2 bzip2), each later byte is one member.        *)

Mode(m) == CASE m = "r:gz" -> 1 [] m = "r:bz2" -> 2

\* tarfile.open(path, mode) succeeds only on a stream of that compression
can_open(bytes, m) == Len(bytes) >= 1 /\ bytes[1] = Mode(m)

Member(b) ==
    CASE b = 1 -> [name |-> <<"j">>, isdir |-> TRUE]
      [] b = 2 -> [name |-> <<"j", "/", "f">>, isdir |-> FALSE]
      [] OTHER -> [name |-> <<"f">>, isdir |-> FALSE]

\* archive.getmembers()
getmembers(bytes) == [k \in 1..(Len(bytes) - 1) |-> Member(bytes[k + 1])]

\* archive.extractall(d): every member is written below d, in order
RECURSIVE extractall(_, _, _)
extractall(f, members, d) ==
    IF members = <<>> THEN f
    ELSE LET m == Head(members)
             n == IF m.isdir THEN Dir ELSE File(<<>>)
             p == join(d, m.name)
             g == IF exists(f, dirname(p)) THEN f ELSE Put(f, dirname(p), Dir)
         IN  extractall(Put(g, p, n), Tail(members), d)


-----------------------------------------------------------------------------
(* Pure functions of the script *)

java_versions == <<"11", "16">>

architecture_map ==
    [m \in {"AMD64", "x86_64", "i386", "x86"} |->
        CASE m = "AMD64" -> "x64" [] m = "x86_64" -> "x64"
          [] m = "i386" -> "x32" [] m = "x86" -> "x86"]

\* a lookup that falls back to x64 for an unknown machine
system_facts_default(m) ==
    [machine |-> m,
     architecture |-> IF m \in DOMAIN architecture_map
                      THEN Some(architecture_map[m]) ELSE Some("x64")]

\* system_facts(), given platform.machine()
system_facts(m) ==
    [machine |-> m,
     architecture |-> IF m \in DOMAIN architecture_map
                      THEN Some(architecture_map[m]) ELSE None]

\* a selection that takes the first element of the response
fetch_first(data) ==
    IF Len(data) <= 0
    THEN [raised |-> "no adoptium jdk/jre assets found", value |-> None]
    ELSE [raised |-> "", value |-> Some(PyIndex(data, 0))]

\* fetch_adoptium, lines 35-38, given the decoded JSON array
fetch_adoptium(data) ==
    IF Len(data) <= 0
    THEN [raised |-> "no adoptium jdk/jre assets found", value |-> None]
    ELSE [raised |-> "", value |-> Some(PyIndex(data, -1))]

\* a comparison over the shorter of the two byte strings only
verify_prefix(a, f) ==
    LET checksum == hex_decode(a.checksum)
        digest == IF exists(f, a.package[1]) THEN sha256(f[a.package[1]].data)
                  ELSE <<>>
        n == IF Len(checksum.bytes) < Len(digest)
             THEN Len(checksum.bytes) ELSE Len(digest)
    IN  IF checksum.raised # "" THEN [raised |-> checksum.raised, value |-> FALSE]
        ELSE IF ~exists(f, a.package[1]) \/ f[a.package[1]].isdir
        THEN [raised |-> "OSError", value |-> FALSE]
        ELSE [raised |-> "",
              value |-> SubSeq(checksum.bytes, 1, n) = SubSeq(digest, 1, n)]

\* verify_asset, lines 59-69, given the asset dict and the file system
verify_asset(a, f) ==
    LET checksum == hex_decode(a.checksum)
    IN  IF checksum.raised # "" THEN [raised |-> checksum.raised, value |-> FALSE]
        ELSE IF ~exists(f, a.package[1]) \/ f[a.package[1]].isdir
        THEN [raised |-> "OSError", value |-> FALSE]
        ELSE [raised |-> "",
              value |-> checksum.bytes = sha256(f[a.package[1]].data)]

\* lines 73-78: the opener's mode for a file name, "" where the ValueError
\* is raised
archive_mode(asset_package) ==
    IF endswith(asset_package, <<".", "t", "a", "r", ".", "g", "z">>)
       \/ endswith(asset_package, <<".", "t", "g", "z">>)
    THEN "r:gz"
    ELSE IF endswith(asset_package, <<"t", "a", "r", ".", "b", "z", "2">>)
            \/ endswith(asset_package, <<".", "t", "b", "z">>)
    THEN "r:bz2"
    ELSE ""

\* a close at the end of the try body, reached only without exception
closed_on_return(raised) == raised = ""

\* lines 89-90: whether archive.close() has run when the try statement is
\* left with the exception `raised` ("" for a return)
archive_closed(raised) == TRUE

\* an extraction that is undone when no root directory is found
rollback_missing_root(f, g) == f

\* lines 87-88: the file system left when line 88 raises for want of a
\* directory entry; f is the one before line 87, g the one after it
on_missing_root(f, g) == g

\* what can go wrong inside the try block apart from a missing directory
\* entry: nothing, getmembers fails on a damaged archive, or extractall
\* fails while it writes the member after the first `done` ones
Faults == {[at |-> "", done |-> 0], [at |-> "getmembers", done |-> 0],
           [at |-> "extractall", done |-> 0], [at |-> "extractall", done |-> 1]}

\* extract_asset, lines 72-90: the exception raised ("" if none), the mode
\* chosen, whether the archive was opened and closed, the path returned and
\* the file system it leaves
extract_asset(asset_package, f, fault) ==
    LET mode == archive_mode(asset_package)
        none == [raised |-> "", mode |-> mode, opened |-> FALSE, closed |-> FALSE,
                 path |-> <<>>, fs |-> f]
    IN  IF mode = ""
        THEN [none EXCEPT !.raised = "ValueError"]
        ELSE IF ~exists(f, asset_package) \/ f[asset_package].isdir
                \/ ~can_open(f[asset_package].data, mode)
        THEN [none EXCEPT !.raised = "ReadError"]
        ELSE LET asset_dir == dirname(asset_package)
                 members == getmembers(f[asset_package].data)
                 D == {k \in 1..Len(members) : members[k].isdir}
                 root_dirname == IF D = {} THEN None
                                 ELSE Some(members[CHOOSE k \in D : \A m \in D : k <= m])
                 g == extractall(f, members, asset_dir)
                 raised == IF fault.at = "getmembers" THEN "ReadError"
                           ELSE IF fault.at = "extractall" /\ fault.done < Len(members)
                           THEN "OSError"
                           ELSE IF root_dirname = None THEN "AttributeError"
                           ELSE ""
             IN  [raised |-> raised, mode |-> mode, opened |-> TRUE,
                  closed |-> archive_closed(raised),
                  path |-> IF raised = "" THEN join(asset_dir, root_dirname[1].name)
                           ELSE <<>>,
                  fs |-> CASE raised = "ReadError" -> f
                           [] raised = "OSError" ->
                                extractall(f, SubSeq(members, 1, fault.done), asset_dir)
                           [] raised = "AttributeError" -> on_missing_root(f, g)
                           [] OTHER -> g]


\* download_asset, lines 41-56, given the server's response: the exception
\* raised ("" if none), the path returned and the file system it leaves
download_asset(resp, tempdir, f) ==
    IF resp.err THEN [raised |-> "URLError", path |-> <<>>, fs |-> f]
    ELSE IF resp.filename = None
    THEN [raised |-> "filename missing", path |-> <<>>, fs |-> f]
    ELSE LET asset_name == join(tempdir, resp.filename[1])
         IN  IF resp.cut < Len(resp.body)
             THEN [raised |-> "IncompleteRead", path |-> <<>>,
                   fs |-> Put(f, asset_name, File(SubSeq(resp.body, 1, resp.cut)))]
             ELSE [raised |-> "", path |-> asset_name,
                   fs |-> Put(f, asset_name, File(resp.body))]

-----------------------------------------------------------------------------
(* The environment: what the host, the catalog and the download server can  *)
(* answer                                                                   *)

Machines == {"x86_64", "aarch64"}

\* package names the catalog declares
Names == {<<"a", ".", "t", "g", "z">>, <<"b", ".", "t", "g", "z">>,
          <<"a", ".", "z", "i", "p">>}

\* package payloads: a gzip archive with a root directory, another one, a gzip
\* archive without any directory entry, a bzip2 archive, and no archive at all
PackageBodies == {<<1, 1>>, <<1, 1, 2>>, <<1, 0>>, <<2, 1>>, <<0>>}

SignatureBodies == {<<0>>}

\* file names the server gives in its Content-Disposition header
FileNames == {<<"p">>, <<"s">>}

\* declared checksums: absent, the digest of two of the payloads, and a
\* string that is not hexadecimal
Checksums == {None, Some(<<"z", "z">>)}
             \cup {Some(hexlify(sha256(b))) : b \in {<<1, 1>>, <<1, 0>>}}

\* binary.package objects of the catalog
Entries == [name : Names, checksum : Checksums,
            link : {"package-url"}, signature_link : {None, Some("signature-url")}]

\* decoded JSON arrays the catalog can answer with
CatalogResponses == BoundedSeq(Entries, MaxCatalog)

\* responses of the download server: a connection error, or headers with or
\* without a file name and a body of which `cut` bytes arrive
HttpResponsesNamed(bodies, names) ==
    {[err |-> TRUE, filename |-> None, body |-> <<>>, cut |-> 0]}
    \cup UNION {{[err |-> FALSE, filename |-> fn, body |-> b, cut |-> c] :
                    fn \in {None} \cup {Some(n) : n \in names},
                    c \in 0..Len(b)} : b \in bodies}

HttpResponses(bodies) == HttpResponsesNamed(bodies, FileNames)

\* get_filename() hands over whatever the server sent, so a name can also
\* be an absolute path
WideFileNames == FileNames \cup {<<"/", "x">>}

WideResponses(bodies) == HttpResponsesNamed(bodies, WideFileNames)


-----------------------------------------------------------------------------
(* The run *)

NoFiles == [q \in {} |-> Dir]

Init ==
    /\ pc = "main"
    /\ args_o \in {None, Some(<<"/", "o">>)}
    /\ sys_facts = None
    /\ ver = 0
    /\ java_package = None
    /\ asset = None
    /\ assets = <<>>
    /\ fs = NoFiles
    /\ cur = 0
    /\ extracted_assets = <<>>
    /\ output = None
    /\ error = ""
    /\ json_data = <<>>
    /\ response = None
    /\ open_archives = 0
    /\ picked = <<>>
    /\ verifyLog = {}
    /\ stages = {}

\* an uncaught exception ends the process: nothing is extracted or dumped
\* an abort that also empties the destination directory
AbortRollback(err, f) ==
    /\ pc' = "aborted"
    /\ error' = err
    /\ fs' = Put(rmtree(f, dir_path), dir_path, Dir)

Abort(err, f) ==
    /\ pc' = "aborted"
    /\ error' = err
    /\ fs' = f

\* an exception that leaves the with block of line 130 on its way out
AbortInWith(err, f) == Abort(err, cleanup(f, tmpdirname(ver)))

\* lines 160-165: the destination directory is made and get_jdk is called
Main ==
    /\ pc = "main"
    /\ fs' = Put(fs, dir_path, Dir)
    /\ pc' = "get_jdk"
    /\ UNCHANGED <<response, open_archives, json_data, args_o, sys_facts, ver, java_package, asset, assets, cur,
                   extracted_assets, output, error, picked, verifyLog, stages>>

\* lines 105-116: the architecture gate
SystemFacts ==
    /\ pc = "get_jdk"
    /\ \E m \in Machines :
         /\ sys_facts' = Some(system_facts(m))
         /\ IF system_facts(m).architecture = None
            THEN /\ Abort("unsupported architecture", fs)
                 /\ ver' = ver
            ELSE /\ pc' = "fetch"
                 /\ ver' = 1
                 /\ UNCHANGED <<fs, error>>
    /\ UNCHANGED <<response, open_archives, json_data, args_o, java_package, asset, assets, cur, extracted_assets,
                   output, picked, verifyLog, stages>>

\* a return statement inside the loop body
ReturnEarly ==
    /\ ver' = ver
    /\ pc' = "extract"
    /\ cur' = 1

\* the for statement of line 118 takes the next version, or get_jdk returns
\* (line 150) and the extraction loop of line 170 starts
NextVersion ==
    IF ver < Len(java_versions)
    THEN /\ ver' = ver + 1
         /\ pc' = "fetch"
         /\ UNCHANGED cur
    ELSE /\ ver' = ver
         /\ pc' = "extract"
         /\ cur' = 1

\* line 119: the catalog is queried and fetch_adoptium selects an entry
FetchAdoptium ==
    /\ pc = "fetch"
    /\ stages' = stages \cup {<<ver, "catalog">>}
    /\ \/ /\ Abort("URLError", fs)
          /\ UNCHANGED <<java_package, picked>>
       \/ \E data \in CatalogResponses :
            LET r == fetch_adoptium(data) IN
            IF r.raised # ""
            THEN /\ Abort(r.raised, fs)
                 /\ UNCHANGED <<java_package, picked>>
            ELSE /\ java_package' = r.value
                 /\ picked' = Append(picked, r.value[1])
                 /\ pc' = "checksum"
                 /\ UNCHANGED <<fs, error>>
    /\ UNCHANGED <<response, open_archives, json_data, args_o, sys_facts, ver, asset, assets, cur, extracted_assets,
                   output, verifyLog>>

\* a test that finds a checksum in every entry
always_checksum(package) == FALSE

\* line 122: the condition of the if statement
no_checksum(package) == package.checksum = None

\* lines 122-124: an entry without checksum is skipped
CheckChecksum ==
    /\ pc = "checksum"
    /\ IF no_checksum(java_package[1])
       THEN NextVersion
       ELSE /\ pc' = "mktemp"
            /\ UNCHANGED <<ver, cur>>
    /\ UNCHANGED <<response, open_archives, json_data, args_o, sys_facts, java_package, asset, assets, fs,
                   extracted_assets, output, error, picked, verifyLog, stages>>

\* lines 130-137: the temporary directory is created and the dict started
MkTemp ==
    /\ pc = "mktemp"
    /\ fs' = Put(fs, tmpdirname(ver), Dir)
    /\ asset' = Some([name |-> java_package[1].name,
                      checksum |-> java_package[1].checksum,
                      signature |-> None, package |-> None, path |-> None,
                      ver |-> ver])
    /\ stages' = stages \cup {<<ver, "tmpdir">>}
    /\ pc' = "signature"
    /\ UNCHANGED <<response, open_archives, json_data, args_o, sys_facts, ver, java_package, assets, cur,
                   extracted_assets, output, error, picked, verifyLog>>

\* lines 138-139: the signature is downloaded, the server answering with one
\* of the given responses
DownloadSignatureFrom(responses) ==
    /\ IF java_package[1].signature_link = None
       THEN /\ AbortInWith("KeyError", fs)
            /\ UNCHANGED <<asset, stages>>
       ELSE /\ stages' = stages \cup {<<ver, "signature">>}
            /\ \E resp \in responses :
                 LET r == download_asset(resp, tmpdirname(ver), fs) IN
                 IF r.raised # ""
                 THEN /\ AbortInWith(r.raised, r.fs)
                      /\ UNCHANGED asset
                 ELSE /\ asset' = Some([asset[1] EXCEPT !.signature = Some(r.path)])
                      /\ fs' = r.fs
                      /\ pc' = "package"
                      /\ UNCHANGED error
    /\ UNCHANGED <<response, open_archives, json_data, args_o, sys_facts, ver, java_package, assets, cur,
                   extracted_assets, output, picked, verifyLog>>

DownloadSignature ==
    /\ pc = "signature"
    /\ DownloadSignatureFrom(HttpResponses(SignatureBodies))

\* line 140: the package is downloaded, the server answering with resp
DownloadPackageWith(resp) ==
    /\ stages' = stages \cup {<<ver, "package">>}
    /\ LET r == download_asset(resp, tmpdirname(ver), fs) IN
         IF r.raised # ""
         THEN /\ AbortInWith(r.raised, r.fs)
              /\ UNCHANGED asset
         ELSE /\ asset' = Some([asset[1] EXCEPT !.package = Some(r.path)])
              /\ fs' = r.fs
              /\ pc' = "verify"
              /\ UNCHANGED error
    /\ UNCHANGED <<response, open_archives, json_data, args_o, sys_facts, ver, java_package, assets, cur,
                   extracted_assets, output, picked, verifyLog>>

DownloadPackage ==
    /\ pc = "package"
    /\ \E resp \in HttpResponses(PackageBodies) : DownloadPackageWith(resp)

\* a gate that lets every package through
never_mismatch(r) == FALSE

\* line 142: the condition of the if statement
checksum_mismatch(r) == ~r.value

\* a mismatch that only drops the version
SkipMismatch ==
    /\ fs' = cleanup(fs, tmpdirname(ver))
    /\ NextVersion
    /\ UNCHANGED error

\* line 143: the mismatch is raised and nothing catches it
RaiseMismatch ==
    /\ AbortInWith("checksum mismatch", fs)
    /\ UNCHANGED <<ver, cur>>

\* lines 142-143: the integrity gate
Verify ==
    /\ pc = "verify"
    /\ stages' = stages \cup {<<ver, "verify">>}
    /\ LET r == verify_asset(asset[1], fs) IN
         /\ verifyLog' = verifyLog \cup
                {<<ver, IF r.raised # "" THEN "raised"
                        ELSE IF r.value THEN "true" ELSE "false">>}
         /\ IF r.raised # ""
            THEN /\ AbortInWith(r.raised, fs)
                 /\ UNCHANGED <<ver, cur>>
            ELSE IF checksum_mismatch(r)
            THEN RaiseMismatch
            ELSE /\ pc' = "copy"
                 /\ UNCHANGED <<fs, error, ver, cur>>
    /\ UNCHANGED <<response, open_archives, json_data, args_o, sys_facts, java_package, asset, assets,
                   extracted_assets, output, picked>>

\* lines 145-146: the verified package is copied under its catalog name
Copy ==
    /\ pc = "copy"
    /\ stages' = stages \cup {<<ver, "copy">>}
    /\ LET path == join(dir_path, asset[1].name) IN
         /\ asset' = Some([asset[1] EXCEPT !.path = Some(path)])
         /\ \/ /\ fs' = Put(fs, path, File(fs[asset[1].package[1]].data))
               /\ pc' = "append"
               /\ UNCHANGED error
            \/ AbortInWith("OSError", fs)
    /\ UNCHANGED <<response, open_archives, json_data, args_o, sys_facts, ver, java_package, assets, cur,
                   extracted_assets, output, picked, verifyLog>>

\* line 148 and the end of the with block: the asset joins the list, the
\* temporary directory goes, the loop moves on
prepend_asset(lst, a) == <<a>> \o lst

\* line 148: assets.append(asset)
append_asset(lst, a) == Append(lst, a)

AppendAsset ==
    /\ pc = "append"
    /\ assets' = append_asset(assets, asset[1])
    /\ fs' = cleanup(fs, tmpdirname(ver))
    /\ NextVersion
    /\ UNCHANGED <<response, open_archives, json_data, args_o, sys_facts, java_package, asset, extracted_assets,
                   output, error, picked, verifyLog, stages>>

\* an except clause that leaves the loop
ExtractFailedBreak ==
    /\ cur' = Len(assets) + 1
    /\ UNCHANGED <<assets, extracted_assets>>

\* lines 174-176: the exception is printed and the loop continues
ExtractFailed ==
    /\ cur' = cur + 1
    /\ UNCHANGED <<assets, extracted_assets>>

\* lines 170-176: one round of the extraction loop; asset is the very dict
\* that is in assets, so its path changes there too
ExtractAsset ==
    /\ pc = "extract"
    /\ cur <= Len(assets)
    /\ \E fault \in Faults :
         LET r == extract_asset(assets[cur].path[1], fs, fault)
             v == assets[cur].ver
         IN
         /\ fs' = r.fs
         /\ open_archives' = open_archives + (IF r.opened /\ ~r.closed THEN 1 ELSE 0)
         /\ stages' = stages \cup
                {<<v, "extract">>, <<v, IF r.raised = "" THEN "extracted" ELSE "dropped">>}
                \cup (IF r.raised = "" THEN {} ELSE {<<v, r.raised>>})
                \cup (IF r.mode = "" THEN {} ELSE {<<v, r.mode>>})
         /\ IF r.raised = ""
            THEN /\ assets' = [assets EXCEPT ![cur].path = Some(r.path)]
                 /\ extracted_assets' =
                        Append(extracted_assets,
                               [assets[cur] EXCEPT !.path = Some(r.path)])
                 /\ cur' = cur + 1
            ELSE ExtractFailed
    /\ UNCHANGED <<response, json_data, pc, args_o, sys_facts, ver, java_package, asset,
                   output, error, picked, verifyLog>>

\* lines 179-188: the list is printed, or written to the file of -o; when
\* that file cannot be opened, outputFile is unbound in the finally clause
Dump ==
    /\ pc = "extract"
    /\ cur > Len(assets)
    /\ IF args_o = None
       THEN /\ output' = Some(extracted_assets)
            /\ pc' = "done"
            /\ UNCHANGED <<fs, error>>
       ELSE \/ /\ output' = Some(extracted_assets)
               /\ fs' = Put(fs, args_o[1], File(<<>>))
               /\ pc' = "done"
               /\ UNCHANGED error
            \/ /\ Abort("NameError", fs)
               /\ UNCHANGED output
    /\ UNCHANGED <<response, open_archives, json_data, args_o, sys_facts, ver, java_package, asset, assets, cur,
                   extracted_assets, picked, verifyLog, stages>>

Next ==
    \/ Main
    \/ SystemFacts
    \/ FetchAdoptium
    \/ CheckChecksum
    \/ MkTemp
    \/ DownloadSignature
    \/ DownloadPackage
    \/ Verify
    \/ Copy
    \/ AppendAsset
    \/ ExtractAsset
    \/ Dump

Spec == Init /\ [][Next]_vars

-----------------------------------------------------------------------------
(* fetch_adoptium on its own: the catalog has answered with data, and the  *)
(* selection of lines 35-38 runs                                           *)

InitCatalog ==
    /\ pc = "fetch_adoptium"
    /\ json_data \in CatalogResponses
    /\ response = None
    /\ open_archives = 0
    /\ args_o = None
    /\ sys_facts = None
    /\ ver = 0
    /\ java_package = None
    /\ asset = None
    /\ assets = <<>>
    /\ fs = NoFiles
    /\ cur = 0
    /\ extracted_assets = <<>>
    /\ output = None
    /\ error = ""
    /\ picked = <<>>
    /\ verifyLog = {}
    /\ stages = {}

SelectLatest ==
    /\ pc = "fetch_adoptium"
    /\ LET r == fetch_adoptium(json_data) IN
         /\ java_package' = r.value
         /\ error' = r.raised
         /\ pc' = IF r.raised = "" THEN "returned" ELSE "raised"
    /\ UNCHANGED <<response, open_archives, json_data, args_o, sys_facts, ver, asset, assets, fs, cur,
                   extracted_assets, output, picked, verifyLog, stages>>

SpecCatalog == InitCatalog /\ [][SelectLatest]_vars


-----------------------------------------------------------------------------
(* verify_asset on its own: a downloaded package and a declared checksum;  *)
(* verify_asset runs, one byte of the file changes, verify_asset runs again *)

\* longest package content tried
MaxBody == 2

ByteValues == {0, 1, 2}

VerifyContents == BoundedSeq(ByteValues, MaxBody)

\* the hex string with its letters in upper case
ToUpper(h) ==
    [k \in 1..Len(h) |->
        IF \E j \in 1..16 : HexDigits[j] = h[k]
        THEN HexUpper[CHOOSE j \in 1..16 : HexDigits[j] = h[k]] ELSE h[k]]

\* the hex string with its letters in lower case
ToLower(h) ==
    [k \in 1..Len(h) |->
        IF \E j \in 1..16 : HexUpper[j] = h[k]
        THEN HexDigits[CHOOSE j \in 1..16 : HexUpper[j] = h[k]] ELSE h[k]]

\* declared checksums: none, empty, of odd length, not hexadecimal, and for
\* every content its digest in lower case, in upper case and written twice
VerifyChecksums ==
    {None, Some(<<>>), Some(<<"0">>), Some(<<"z", "z">>)}
    \cup UNION {{Some(hexlify(sha256(c))), Some(ToUpper(hexlify(sha256(c)))),
                 Some(hexlify(sha256(c) \o sha256(c)))} : c \in VerifyContents}

verify_path == join(tmpdirname(1), <<"p">>)

InitVerify ==
    /\ pc = "verify_asset"
    /\ asset \in {Some([name |-> <<"a", ".", "t", "g", "z">>, checksum |-> c,
                        signature |-> None, package |-> Some(verify_path),
                        path |-> None, ver |-> 1]) : c \in VerifyChecksums}
    /\ fs \in {Put(Put(NoFiles, tmpdirname(1), Dir), verify_path, File(b)) :
                 b \in VerifyContents}
    /\ cur = 0
    /\ json_data = <<>>
    /\ response = None
    /\ open_archives = 0
    /\ args_o = None
    /\ sys_facts = None
    /\ ver = 1
    /\ java_package = None
    /\ assets = <<>>
    /\ extracted_assets = <<>>
    /\ output = None
    /\ error = ""
    /\ picked = <<>>
    /\ verifyLog = {}
    /\ stages = {}

\* one call of verify_asset; cur counts the calls
VerifyOnly ==
    /\ pc = "verify_asset"
    /\ LET r == verify_asset(asset[1], fs) IN
         /\ verifyLog' = verifyLog \cup
                {<<cur + 1, IF r.raised # "" THEN "raised"
                            ELSE IF r.value THEN "true" ELSE "false">>}
         /\ error' = r.raised
    /\ cur' = cur + 1
    /\ pc' = IF cur = 0 THEN "mutate" ELSE "verified"
    /\ UNCHANGED <<response, open_archives, json_data, args_o, sys_facts, ver, java_package, asset, assets,
                   fs, extracted_assets, output, picked, stages>>

\* one byte of the package file is changed
FlipByte ==
    /\ pc = "mutate"
    /\ \E k \in 1..Len(fs[verify_path].data) :
         \E b \in ByteValues \ {fs[verify_path].data[k]} :
            fs' = Put(fs, verify_path,
                      File([fs[verify_path].data EXCEPT ![k] = b]))
    /\ pc' = "verify_asset"
    /\ UNCHANGED <<response, open_archives, json_data, args_o, sys_facts, ver, java_package, asset, assets,
                   cur, extracted_assets, output, error, picked, verifyLog, stages>>

SpecVerify == InitVerify /\ [][VerifyOnly \/ FlipByte]_vars

-----------------------------------------------------------------------------
(* The extraction loop on its own: one verified package of any name lies in *)
(* the destination directory and the loop of lines 170-176 runs             *)

\* endings of the file names tried, with and without the leading dot
Suffixes ==
    {<<".", "t", "a", "r", ".", "g", "z">>, <<"t", "a", "r", ".", "g", "z">>,
     <<".", "t", "g", "z">>, <<"t", "g", "z">>,
     <<".", "t", "a", "r", ".", "b", "z", "2">>, <<"t", "a", "r", ".", "b", "z", "2">>,
     <<".", "t", "b", "z">>, <<"t", "b", "z">>,
     <<".", "z", "i", "p">>, <<".", "t", "a", "r">>, <<".", "g", "z">>,
     <<".", "b", "z", "2">>, <<>>}

ArchiveNames == {<<"a">> \o suf : suf \in Suffixes}

InitExtract ==
    /\ pc = "extract"
    /\ \E n \in ArchiveNames : \E b \in PackageBodies :
         /\ assets = <<[name |-> n, checksum |-> Some(hexlify(sha256(b))),
                        signature |-> None, package |-> None,
                        path |-> Some(join(dir_path, n)), ver |-> 1]>>
         /\ fs = Put(Put(NoFiles, dir_path, Dir), join(dir_path, n), File(b))
    /\ cur = 1
    /\ json_data = <<>>
    /\ response = None
    /\ open_archives = 0
    /\ args_o \in {None, Some(<<"/", "o">>)}
    /\ sys_facts = None
    /\ ver = 1
    /\ java_package = None
    /\ asset = None
    /\ extracted_assets = <<>>
    /\ output = None
    /\ error = ""
    /\ picked = <<>>
    /\ verifyLog = {<<1, "true">>}
    /\ stages = {}

SpecExtract == InitExtract /\ [][ExtractAsset \/ Dump]_vars

-----------------------------------------------------------------------------
(* The run with servers that may also send absolute file names *)

DownloadSignatureWide ==
    /\ pc = "signature"
    /\ DownloadSignatureFrom(WideResponses(SignatureBodies))

DownloadPackageWide ==
    /\ pc = "package"
    /\ \E resp \in WideResponses(PackageBodies) : DownloadPackageWith(resp)

NextWide ==
    \/ Main
    \/ SystemFacts
    \/ FetchAdoptium
    \/ CheckChecksum
    \/ MkTemp
    \/ DownloadSignatureWide
    \/ DownloadPackageWide
    \/ Verify
    \/ Copy
    \/ AppendAsset
    \/ ExtractAsset
    \/ Dump

SpecWide == Init /\ [][NextWide]_vars

-----------------------------------------------------------------------------
(* One call of download_asset on its own: the call of line 140 with a      *)
(* response fixed beforehand, in the scratch directory of the first version *)
(* after the signature download of line 139                                 *)

InitDownload ==
    /\ pc = "package"
    /\ response \in {Some(resp) : resp \in WideResponses(PackageBodies)}
    /\ ver = 1
    /\ \E e \in Entries : \E sn \in WideFileNames :
         LET sig == join(tmpdirname(1), sn) IN
         /\ e.signature_link # None
         /\ e.checksum # None
         /\ json_data = <<>>
         /\ picked = <<e>>
         /\ java_package = Some(e)
         /\ asset = Some([name |-> e.name, checksum |-> e.checksum,
                          signature |-> Some(sig), package |-> None,
                          path |-> None, ver |-> 1])
         /\ fs = Put(Put(Put(NoFiles, dir_path, Dir), tmpdirname(1), Dir),
                     sig, File(<<0>>))
    /\ stages = {<<1, "catalog">>, <<1, "tmpdir">>, <<1, "signature">>}
    /\ open_archives = 0
    /\ args_o = None
    /\ sys_facts = Some(system_facts("x86_64"))
    /\ assets = <<>>
    /\ cur = 0
    /\ extracted_assets = <<>>
    /\ output = None
    /\ error = ""
    /\ verifyLog = {}

DownloadOnly ==
    /\ pc = "package"
    /\ response # None
    /\ DownloadPackageWith(response[1])

SpecDownload == InitDownload /\ [][DownloadOnly]_vars

-----------------------------------------------------------------------------
(* Properties *)

VersionIdx == 1..Len(java_versions)

Began(v, st) == <<v, st>> \in stages

\* versions with an entry in what was dumped
OutputVersions ==
    IF output = None THEN {}
    ELSE {output[1][k].ver : k \in 1..Len(output[1])}

\* versions with an asset in the list get_jdk builds
AssetVersions == {assets[k].ver : k \in 1..Len(assets)}

\* positions between the creation of the temporary directory and the end
\* of the with block
InAttempt == {"signature", "package", "verify", "copy", "append"}

\* the run is over
Ended == pc \in {"done", "aborted"}

\* C1: extract_asset is only ever called for a version whose downloaded
\* package made verify_asset return true earlier in the run, never for one
\* that was not verified or whose verification failed or raised.
C1_ExtractOnlyVerified ==
    \A v \in VersionIdx :
        Began(v, "extract") =>
            /\ <<v, "true">> \in verifyLog
            /\ <<v, "false">> \notin verifyLog
            /\ <<v, "raised">> \notin verifyLog

C1_Witness ==
    /\ Began(1, "extract")
    /\ Began(2, "extract")
    /\ <<2, "true">> \in verifyLog

\* C2: when get_jdk returns, every asset of its list has been copied after a
\* successful verification and the file at its 'path' has a digest equal to
\* the asset's declared checksum.
C2_ReturnedAssetsMatch ==
    (pc = "extract" /\ cur = 1) =>
        \A k \in 1..Len(assets) :
            /\ <<assets[k].ver, "true">> \in verifyLog
            /\ exists(fs, assets[k].path[1])
            /\ hex_decode(assets[k].checksum).bytes
                 = sha256(fs[assets[k].path[1]].data)

\* C3: once verify_asset has returned false for a version, the run is
\* aborted with the checksum-mismatch error at that version: no later
\* version has any stage, nothing was or is extracted, nothing is dumped.
C3_MismatchAbortsRun ==
    \A v \in VersionIdx :
        <<v, "false">> \in verifyLog =>
            /\ pc = "aborted"
            /\ error = "checksum mismatch"
            /\ ver = v
            /\ \A s \in stages : s[1] <= v /\ s[2] # "extract"
            /\ extracted_assets = <<>>
            /\ output = None

C3_Witness ==
    /\ <<2, "false">> \in verifyLog
    /\ <<1, "true">> \in verifyLog
    /\ Len(assets) = 1
    /\ pc = "aborted"

\* C4: a version whose selected entry has no checksum is skipped: it gets
\* no temporary directory, download, verification, copy or extraction, the
\* step that skips it neither aborts the run nor touches the file system,
\* and it hands over to the next version (or to the end of the loop).
C4_SkipState ==
    \A v \in 1..Len(picked) :
        picked[v].checksum = None =>
            /\ \A s \in stages : s[1] = v => s[2] = "catalog"
            /\ ~exists(fs, tmpdirname(v))
            /\ v \notin AssetVersions
            /\ (pc = "aborted" /\ ver = v) => error = "NameError"

C4_SkipStep ==
    (pc = "checksum" /\ java_package[1].checksum = None) =>
        /\ error' = "" /\ fs' = fs /\ assets' = assets /\ stages' = stages
        /\ IF ver < Len(java_versions)
           THEN pc' = "fetch" /\ ver' = ver + 1
           ELSE pc' = "extract" /\ cur' = 1

\* C4: the skip of a version without checksum, as the invariant C4_SkipState
\* of every state and the step C4_SkipStep of the check of line 122.
C4_NoChecksumSkips == []C4_SkipState /\ [][C4_SkipStep]_vars

C4_Witness ==
    /\ Len(picked) = 2
    /\ picked[1].checksum = None
    /\ pc = "done"
    /\ OutputVersions = {2}


\* C2, its first half alone: a copy into the destination directory begins
\* only for a version whose package made verify_asset return true.
C2_CopiedAfterVerify ==
    \A v \in VersionIdx : Began(v, "copy") => <<v, "true">> \in verifyLog

\* paths below some temporary directory
TempPaths(f) == {q \in DOMAIN f : startswith(q, <<"/", "t">>)}

\* C5: the temporary directory of a version exists exactly from its creation
\* right before the first download until that version's attempt is over,
\* whichever way it ends; so at most one exists at any time, and when the
\* run has ended neither a temporary directory nor a file in one is left.
C5_TempDirScoped ==
    /\ Cardinality(TempDirs(fs)) <= 1
    /\ \A i \in TempDirs(fs) : i = ver /\ pc \in InAttempt
    /\ pc \in InAttempt => exists(fs, tmpdirname(ver))
    /\ pc \notin InAttempt => TempPaths(fs) = {}
    /\ \A q \in TempPaths(fs) : startswith(q, tmpdirname(ver))

C5_Witness ==
    /\ pc = "aborted"
    /\ error = "IncompleteRead"
    /\ ver = 2
    /\ Len(assets) = 1
    /\ TempPaths(fs) = {}

\* C6: a version whose extraction raises is left out of the output, every
\* later asset of the list is still handed to extract_asset, and what is
\* dumped holds exactly the versions whose extraction succeeded.
C6_ExtractionFailureDropsOne ==
    /\ \A v \in VersionIdx :
          Began(v, "dropped") =>
              /\ ~Began(v, "extracted")
              /\ v \notin OutputVersions
              /\ \A k \in 1..Len(extracted_assets) : extracted_assets[k].ver # v
    /\ (pc = "extract" /\ cur > Len(assets)) \/ output # None =>
          \A v \in AssetVersions : Began(v, "extract")
    /\ output # None =>
          OutputVersions = {v \in VersionIdx : Began(v, "extracted")}

C6_Witness ==
    /\ pc = "done"
    /\ Began(1, "dropped")
    /\ Began(2, "extracted")
    /\ OutputVersions = {2}

\* C7 as stated: a failure at any stage of one version drops only that
\* version, so when the run is over every version that was fetched, verified
\* and copied and whose extraction did not fail is in the output.
C7_Original ==
    (Ended /\ error # "NameError") =>
        \A v \in AssetVersions : ~Began(v, "dropped") => v \in OutputVersions

\* C7 amended: only a missing checksum and a failed extraction drop a single
\* version, and then every other version that passes its own stages is in
\* the output; a failure at catalog lookup, fetch, verification or copy ends
\* the whole run with nothing extracted and no output.
C7_OnlySkipAndExtractionAreLocal ==
    /\ pc = "done" =>
          \A v \in VersionIdx :
              \/ v \in OutputVersions
              \/ v <= Len(picked) /\ picked[v].checksum = None
              \/ Began(v, "dropped")
    /\ (pc = "aborted" /\ error # "NameError") =>
          /\ output = None
          /\ extracted_assets = <<>>
          /\ \A s \in stages : s[2] # "extract"
          /\ \A v \in VersionIdx : v > ver => \A s \in stages : s[1] # v

C7_Witness ==
    /\ pc = "done"
    /\ picked[1].checksum = None
    /\ Began(2, "extracted")
    /\ output # None
    /\ Len(output[1]) = 1

\* a version's pipeline, extraction included, is over
Concluded(v) ==
    \/ v <= Len(picked) /\ picked[v].checksum = None
    \/ Began(v, "extracted")
    \/ Began(v, "dropped")

\* C8 as stated: no stage of a version begins before the whole pipeline of
\* every earlier version, extraction included, has concluded.
C8_Original ==
    pc # "aborted" =>
        \A s \in stages : \A v \in VersionIdx : v < s[1] => Concluded(v)

\* a version's first pass (catalog lookup, fetch, verify, copy) is over
FirstPassOver(v) ==
    /\ ~exists(fs, tmpdirname(v))
    /\ \/ v <= Len(picked) /\ picked[v].checksum = None
       \/ v \in AssetVersions

\* C8 amended: the run has two passes.  Catalog lookup, fetch, verification
\* and copy of a version conclude before any stage of the next version
\* begins; extraction begins only when that first pass is over for every
\* requested version, and then goes through the list in order.
C8_TwoSequentialPasses ==
    /\ \A s \in stages : \A v \in VersionIdx : v < s[1] => FirstPassOver(v)
    /\ (\E s \in stages : s[2] = "extract") =>
          \A v \in VersionIdx : Began(v, "catalog") /\ FirstPassOver(v)
    /\ \A k \in 1..Len(assets) :
          Began(assets[k].ver, "extract") <=> k < cur

C8_Witness ==
    /\ pc = "fetch"
    /\ ver = 2
    /\ 1 \in AssetVersions
    /\ ~Began(1, "extract")

\* C9: a version whose selected entry has a checksum but no signature link
\* is not stopped by that: past the signature step its package download
\* has begun.
C9_SignatureOptional ==
    \A v \in 1..Len(picked) :
        (/\ picked[v].checksum # None
         /\ picked[v].signature_link = None
         /\ Began(v, "tmpdir")
         /\ ~(ver = v /\ pc = "signature"))
        => Began(v, "package")

\* C10: on a response array of length N > 0 fetch_adoptium returns the
\* element at index N-1; on an empty array it raises the catalog-empty
\* error and returns nothing.
C10_LastElementSelected ==
    /\ pc = "returned" =>
          /\ Len(json_data) > 0
          /\ java_package = Some(json_data[Len(json_data)])
          /\ error = ""
    /\ pc = "raised" =>
          /\ Len(json_data) = 0
          /\ java_package = None
          /\ error = "no adoptium jdk/jre assets found"

C10_Witness ==
    /\ pc = "returned"
    /\ Len(json_data) = 2
    /\ json_data[1] # json_data[2]
    /\ java_package = Some(json_data[2])


\* C11: when the host's machine identifier is not in the architecture
\* mapping, the run ends with the unsupported-architecture error before any
\* catalog query or download: no stage of any version has begun, and no
\* temporary directory, file in the destination directory, asset or output
\* exists.
C11_UnsupportedArchitectureFirst ==
    /\ error = "unsupported architecture" =>
          /\ pc = "aborted"
          /\ sys_facts # None /\ sys_facts[1].machine \notin DOMAIN architecture_map
    /\ (sys_facts # None /\ sys_facts[1].machine \notin DOMAIN architecture_map) =>
          /\ pc = "aborted"
          /\ error = "unsupported architecture"
          /\ stages = {}
          /\ picked = <<>>
          /\ DOMAIN fs = {dir_path}
          /\ assets = <<>>
          /\ extracted_assets = <<>>
          /\ output = None

C11_Witness ==
    /\ sys_facts # None
    /\ sys_facts[1].machine = "aarch64"
    /\ pc = "aborted"
    /\ exists(fs, dir_path)


\* the declared checksum, read as hexadecimal in either letter case, is
\* the digest of the whole content, digit for digit
FullMatch(checksum, content) ==
    /\ checksum # None
    /\ ToLower(checksum[1]) = hexlify(sha256(content))

C12_VerifyStep ==
    pc = "verify_asset" =>
        /\ fs' = fs
        /\ asset' = asset
        /\ <<cur', "true">> \in verifyLog'
             <=> FullMatch(asset[1].checksum, fs[verify_path].data)

C12_FlipState ==
    (cur = 2 /\ <<1, "true">> \in verifyLog) => <<2, "false">> \in verifyLog

\* C12: verify_asset returns true exactly when the declared checksum decodes
\* to the digest of the file's full content (no shorter or longer string
\* matches), it leaves the file and the asset record as they were, and
\* after a change of any one byte of a matching file it returns false.
C12_VerifyExact == []C12_FlipState /\ [][C12_VerifyStep]_vars

C12_Witness ==
    /\ cur = 2
    /\ <<1, "true">> \in verifyLog
    /\ <<2, "false">> \in verifyLog
    /\ Len(fs[verify_path].data) = 2


GzNamed(n) ==
    endswith(n, <<".", "t", "a", "r", ".", "g", "z">>) \/ endswith(n, <<".", "t", "g", "z">>)

Bz2Named(n) ==
    endswith(n, <<".", "t", "a", "r", ".", "b", "z", "2">>)
    \/ endswith(n, <<".", "t", "b", "z">>)

\* C13: extract_asset takes the gzip mode exactly for names ending in
\* .tar.gz or .tgz and the bzip2 mode exactly for names ending in .tar.bz2
\* or .tbz; for every other name it raises the ValueError, opens nothing
\* and writes nothing.
C13_SuffixDispatch ==
    \A k \in 1..Len(assets) :
        LET v == assets[k].ver
            n == assets[k].name
        IN  Began(v, "extract") =>
                /\ Began(v, "r:gz") <=> GzNamed(n)
                /\ Began(v, "r:bz2") <=> Bz2Named(n)
                /\ (~GzNamed(n) /\ ~Bz2Named(n)) =>
                      /\ Began(v, "ValueError")
                      /\ {p \in DOMAIN fs : startswith(p, dir_path)}
                            = {dir_path, join(dir_path, n)}


\* the steps of extract_asset that can fail once the archive is open
FailedAfterOpen == {"ReadError", "OSError", "AttributeError"}

\* C14: no archive handle opened by extract_asset is still open once
\* extract_asset has returned or raised, whichever step failed.
C14_ArchiveAlwaysClosed == open_archives = 0

C14_Witness ==
    /\ pc = "done"
    /\ open_archives = 0
    /\ \E v \in VersionIdx :
         /\ Began(v, "r:gz")
         /\ Began(v, "dropped")
         /\ \E e \in {"OSError", "AttributeError"} : Began(v, e)


\* C15: the emitted output is a sequence with at most one entry per
\* requested version, in the order of the requested versions, and holds
\* exactly the versions that were fetched, verified, copied and extracted.
C15_OutputOrderedAndExact ==
    output # None =>
        LET out == output[1] IN
        /\ \A i, j \in 1..Len(out) : i < j => out[i].ver < out[j].ver
        /\ \A v \in VersionIdx :
              (\E k \in 1..Len(out) : out[k].ver = v)
                  <=> /\ Began(v, "catalog")
                      /\ <<v, "true">> \in verifyLog
                      /\ Began(v, "copy")
                      /\ v \in AssetVersions
                      /\ Began(v, "extracted")

C15_Witness ==
    /\ output # None
    /\ Len(output[1]) = 2
    /\ output[1][1].ver = 1
    /\ output[1][2].ver = 2


\* the one path at which two file systems differ, if there is exactly one
WrittenPaths(f, g) ==
    {p \in (DOMAIN f) \cup (DOMAIN g) :
        p \notin DOMAIN f \/ p \notin DOMAIN g \/ f[p] # g[p]}

C16_DownloadStep ==
    (response # None /\ pc = "package" /\ pc' # "package") =>
        LET resp == response[1]
            tmp == tmpdirname(ver)
        IN
        /\ (~resp.err /\ resp.filename = None) =>
              /\ pc' = "aborted"
              /\ error' = "filename missing"
              /\ output' = None
              /\ {p \in DOMAIN fs' : p \notin DOMAIN fs} = {}
        /\ (~resp.err /\ resp.filename # None /\ resp.cut = Len(resp.body)) =>
              /\ pc' = "verify"
              /\ \E p \in DOMAIN fs' :
                    /\ WrittenPaths(fs, fs') \subseteq {p}
                    /\ startswith(p, tmp \o <<"/">>)
                    /\ fs'[p] = File(resp.body)
                    /\ asset'[1].package = Some(p)

\* C16: a download whose response carries no filename fails with the
\* filename-missing error, creates no file and aborts the run; a download
\* whose response carries a filename writes exactly one file, inside the
\* given scratch directory, and returns its path.
C16_DownloadNamesFromServer == [][C16_DownloadStep]_vars


\* C17: when the archive of a verified version holds no directory entry,
\* extract_asset raises after every entry has been extracted beside the
\* archive: the version is dropped, the loop goes on, and the extracted
\* files stay in the destination directory.
C17_MissingRootLeavesFiles ==
    \A k \in 1..Len(assets) :
        LET v == assets[k].ver
            p == assets[k].path[1]
        IN  Began(v, "AttributeError") =>
                /\ <<v, "true">> \in verifyLog
                /\ Began(v, "dropped")
                /\ v \notin OutputVersions
                /\ \A i \in 1..Len(extracted_assets) : extracted_assets[i].ver # v
                /\ pc = "aborted" => error = "NameError"
                /\ exists(fs, p)
                /\ dirname(p) = dir_path
                /\ LET members == getmembers(fs[p].data) IN
                       \A i \in 1..Len(members) :
                           /\ ~members[i].isdir
                           /\ exists(fs, join(dir_path, members[i].name))

C17_Witness ==
    /\ pc = "done"
    /\ Began(1, "AttributeError")
    /\ OutputVersions = {2}
    /\ exists(fs, join(dir_path, <<"f">>))


\* C18: in every emitted output entry the 'signature' and 'package' paths
\* lie inside that version's temporary directory, which is gone when the
\* output is emitted, so neither refers to an existing file; only 'path'
\* refers to existing data.
C18_OnlyPathSurvives ==
    output # None =>
        \A k \in 1..Len(output[1]) :
            LET e == output[1][k]
                tmp == tmpdirname(e.ver)
            IN  /\ ~exists(fs, tmp)
                /\ e.signature # None =>
                      /\ startswith(e.signature[1], tmp \o <<"/">>)
                      /\ ~exists(fs, e.signature[1])
                /\ e.package # None
                /\ startswith(e.package[1], tmp \o <<"/">>)
                /\ ~exists(fs, e.package[1])
                /\ e.path # None
                /\ exists(fs, e.path[1])


\* the fatal errors of get_jdk that the claim names
FatalInGetJdk ==
    {"checksum mismatch", "no adoptium jdk/jre assets found", "filename missing"}

\* C19: when a later version aborts the run with a checksum mismatch, an
\* empty catalog or a missing filename, the verified archives copied for the
\* earlier versions are still in the destination directory, unextracted,
\* and the run has emitted no output.
C19_AbortKeepsEarlierArchives ==
    (pc = "aborted" /\ error \in FatalInGetJdk) =>
        /\ output = None
        /\ extracted_assets = <<>>
        /\ \A k \in 1..Len(assets) :
              LET a == assets[k]
                  p == join(dir_path, a.name)
              IN  /\ a.ver < ver
                  /\ <<a.ver, "true">> \in verifyLog
                  /\ ~Began(a.ver, "extract")
                  /\ a.path = Some(p)
                  /\ exists(fs, p)
                  /\ ~fs[p].isdir
                  /\ Some(hexlify(sha256(fs[p].data))) = a.checksum
        /\ {p \in DOMAIN fs : startswith(p, dir_path \o <<"/">>)}
              = {join(dir_path, assets[k].name) : k \in 1..Len(assets)}

C19_Witness ==
    /\ pc = "aborted"
    /\ error = "checksum mismatch"
    /\ ver = 2
    /\ Len(assets) = 1
    /\ exists(fs, assets[1].path[1])

=============================================================================
